---------------------------- MODULE Spec2Model ----------------------------
(***************************************************************************)
(* rsgeo: a 2D Point / LineSegment library over f64 (src/src/lib.rs).      *)
(*                                                                         *)
(* An f64 is modelled as a sign-magnitude value: a finite rational s*n/d   *)
(* (zero keeps its sign, as in IEEE-754), an infinity with a sign, or NaN. *)
(* Finite results are carried exactly (no rounding, no overflow to Inf);   *)
(* the special values follow IEEE-754.                                     *)
(***************************************************************************)
EXTENDS Integers

VARIABLES p, q, k, s, t, op, res

vars == <<p, q, k, s, t, op, res>>

(***************************************************************************)
(* Bounds of the model.                                                    *)
(***************************************************************************)
MaxCoord == 1
MaxScalar == 3

(***************************************************************************)
(* f64 values and their arithmetic.                                        *)
(***************************************************************************)
RECURSIVE GCD(_, _)
GCD(a, b) == IF b = 0 THEN a ELSE GCD(b, a % b)

LCM(a, b) == (a \div GCD(a, b)) * b

Fin(sg, n, d) ==
    LET g == GCD(n, d)
    IN  [kind |-> "fin", sgn |-> sg, num |-> n \div g, den |-> d \div g]

NaN == [kind |-> "nan", sgn |-> 1, num |-> 0, den |-> 1]
Inf(sg) == [kind |-> "inf", sgn |-> sg, num |-> 0, den |-> 1]
INFINITY == Inf(1)
NEG_INFINITY == Inf(-1)
Zero == Fin(1, 0, 1)
NegZero == Fin(-1, 0, 1)

\* The f64 whose value is the integer i.
I(i) == IF i < 0 THEN Fin(-1, -i, 1) ELSE Fin(1, i, 1)

is_nan(a) == a.kind = "nan"
is_infinite(a) == a.kind = "inf"
is_finite(a) == a.kind = "fin"
IsZero(a) == a.kind = "fin" /\ a.num = 0

F_neg(a) == IF is_nan(a) THEN NaN ELSE [a EXCEPT !.sgn = -a.sgn]

F_abs(a) == IF is_nan(a) THEN NaN ELSE [a EXCEPT !.sgn = 1]

F_mul(a, b) ==
    IF is_nan(a) \/ is_nan(b) THEN NaN
    ELSE IF is_infinite(a) \/ is_infinite(b)
         THEN IF IsZero(a) \/ IsZero(b) THEN NaN ELSE Inf(a.sgn * b.sgn)
         ELSE Fin(a.sgn * b.sgn, a.num * b.num, a.den * b.den)

F_div(a, b) ==
    IF is_nan(a) \/ is_nan(b) THEN NaN
    ELSE IF is_infinite(a)
         THEN IF is_infinite(b) THEN NaN ELSE Inf(a.sgn * b.sgn)
         ELSE IF is_infinite(b) THEN Fin(a.sgn * b.sgn, 0, 1)
         ELSE IF IsZero(b)
              THEN IF IsZero(a) THEN NaN ELSE Inf(a.sgn * b.sgn)
              ELSE Fin(a.sgn * b.sgn, a.num * b.den, a.den * b.num)

F_add(a, b) ==
    IF is_nan(a) \/ is_nan(b) THEN NaN
    ELSE IF is_infinite(a)
         THEN IF is_infinite(b) /\ b.sgn # a.sgn THEN NaN ELSE a
         ELSE IF is_infinite(b) THEN b
         ELSE LET l == LCM(a.den, b.den)
                  m == a.sgn * a.num * (l \div a.den) + b.sgn * b.num * (l \div b.den)
              IN  IF m > 0 THEN Fin(1, m, l)
                  ELSE IF m < 0 THEN Fin(-1, -m, l)
                  \* an exact zero sum is +0, except (-0) + (-0) = -0
                  ELSE IF a.sgn = -1 /\ b.sgn = -1 THEN NegZero ELSE Zero

F_sub(a, b) == F_add(a, F_neg(b))

\* Compares the non-negative fractions a/b and c/d by their continued
\* fractions: -1, 0 or 1 as a/b is below, equal to or above c/d.
RECURSIVE CmpFrac(_, _, _, _)
CmpFrac(a, b, c, d) ==
    LET q1 == a \div b
        q2 == c \div d
        r1 == a % b
        r2 == c % d
    IN  IF q1 # q2 THEN (IF q1 < q2 THEN -1 ELSE 1)
        ELSE IF r1 = 0 /\ r2 = 0 THEN 0
        ELSE IF r1 = 0 THEN -1
        ELSE IF r2 = 0 THEN 1
        ELSE CmpFrac(d, r2, b, r1)

\* -1, 0, 1 as a is below, equal to or above b; a and b are not NaN.
Cmp(a, b) ==
    IF is_infinite(a)
    THEN IF is_infinite(b) /\ b.sgn = a.sgn THEN 0 ELSE a.sgn
    ELSE IF is_infinite(b) THEN -b.sgn
    ELSE IF a.num = 0 /\ b.num = 0 THEN 0
    ELSE IF a.num = 0 THEN -b.sgn
    ELSE IF b.num = 0 THEN a.sgn
    ELSE IF a.sgn # b.sgn THEN a.sgn
    ELSE a.sgn * CmpFrac(a.num, a.den, b.num, b.den)

F_le(a, b) == ~is_nan(a) /\ ~is_nan(b) /\ Cmp(a, b) <= 0

F_eq(a, b) == ~is_nan(a) /\ ~is_nan(b) /\ Cmp(a, b) = 0

IsSquare(n) == \E r \in 0..n : r * r = n
Root(n) == CHOOSE r \in 0..n : r * r = n

\* sqrt is carried only where it is exact.
HasExactSqrt(a) ==
    is_finite(a) => (a.num = 0 \/ (a.sgn = 1 /\ IsSquare(a.num) /\ IsSquare(a.den)))

F_sqrt(a) ==
    IF is_nan(a) THEN NaN
    ELSE IF IsZero(a) THEN a
    ELSE IF a.sgn = -1 THEN NaN
    ELSE IF is_infinite(a) THEN a
    ELSE Fin(1, Root(a.num), Root(a.den))

F_powi2(a) == F_mul(a, a)

(***************************************************************************)
(* Angles.  The result of atan2 is known to the octant: the angle is       *)
(* sgn * oct * PI/4 when exact, and lies strictly between oct * PI/4 and   *)
(* (oct + 1) * PI/4 (times sgn) when not.                                  *)
(***************************************************************************)
Ang(sg, o, e) == [kind |-> "ang", sgn |-> sg, oct |-> o, exact |-> e]

PI == Ang(1, 4, TRUE)

\* y.atan2(x), with the IEEE-754 special cases.
atan2(y, x) ==
    IF is_nan(y) \/ is_nan(x) THEN NaN
    ELSE IF IsZero(y)
         THEN IF x.sgn = -1 THEN Ang(y.sgn, 4, TRUE) ELSE Ang(y.sgn, 0, TRUE)
    ELSE IF IsZero(x) THEN Ang(y.sgn, 2, TRUE)
    ELSE IF is_infinite(y)
         THEN IF is_infinite(x)
              THEN IF x.sgn = -1 THEN Ang(y.sgn, 3, TRUE) ELSE Ang(y.sgn, 1, TRUE)
              ELSE Ang(y.sgn, 2, TRUE)
    ELSE IF is_infinite(x)
         THEN IF x.sgn = -1 THEN Ang(y.sgn, 4, TRUE) ELSE Ang(y.sgn, 0, TRUE)
    ELSE LET c == Cmp(F_abs(y), F_abs(x))
         IN  IF x.sgn = 1
             THEN IF c < 0 THEN Ang(y.sgn, 0, FALSE)
                  ELSE IF c = 0 THEN Ang(y.sgn, 1, TRUE)
                  ELSE Ang(y.sgn, 1, FALSE)
             ELSE IF c < 0 THEN Ang(y.sgn, 3, FALSE)
                  ELSE IF c = 0 THEN Ang(y.sgn, 3, TRUE)
                  ELSE Ang(y.sgn, 2, FALSE)

\* The angles rotate is called with, in radians: 0.6435 (sin 3/5, cos 4/5)
\* and 0.108 (sin 37/343, cos 341/343).  The tabulated sine and cosine of
\* the first lie on the unit circle; those of the second carry a rounding
\* error, c*c + s*s = 1 + 1/117649.
A345 == Fin(1, 1287, 2000)
A37 == Fin(1, 27, 250)

SinAbs(a) ==
    CASE a = A345 -> Fin(1, 3, 5)
      [] a = A37 -> Fin(1, 37, 343)

CosAbs(a) ==
    CASE a = A345 -> Fin(1, 4, 5)
      [] a = A37 -> Fin(1, 341, 343)

\* angle.sin(): odd, sin(+-0) = +-0, NaN for a non-finite angle.
sin(a) ==
    IF ~is_finite(a) THEN NaN
    ELSE IF IsZero(a) THEN a
    ELSE [SinAbs(F_abs(a)) EXCEPT !.sgn = a.sgn]

\* angle.cos(): even, cos(+-0) = 1, NaN for a non-finite angle.
cos(a) ==
    IF ~is_finite(a) THEN NaN
    ELSE IF IsZero(a) THEN I(1)
    ELSE CosAbs(F_abs(a))

(***************************************************************************)
(* Point, LineSegment and their operations.                                *)
(***************************************************************************)
Point(x, y) == [x |-> x, y |-> y]

LineSegment(p1, p2) == [p1 |-> p1, p2 |-> p2]

ATOL == Fin(1, 1, 100000000)
RTOL == Fin(1, 1, 100000)

\* Faulty variant: the relative tolerance scales with the receiver's magnitude.
f64_isclose_receiver(a, b) ==
    F_le(F_abs(F_sub(a, b)), F_add(ATOL, F_mul(RTOL, F_abs(a))))

f64_isclose(a, b) == F_le(F_abs(F_sub(a, b)), F_add(ATOL, F_mul(RTOL, F_abs(b))))

Point_angle(self) == atan2(self.y, self.x)

Point_mul(self, x) == Point(F_mul(self.x, x), F_mul(self.y, x))

Point_div(self, x) == Point(F_div(self.x, x), F_div(self.y, x))

\* Faulty variant: the sign of the sine term of x is wrong.
Point_rotate_sign(self, angle) ==
    LET sn == sin(angle)
        cs == cos(angle)
    IN  Point(F_add(F_mul(self.x, cs), F_mul(self.y, sn)),
              F_add(F_mul(self.x, sn), F_mul(self.y, cs)))

Point_rotate(self, angle) ==
    LET sn == sin(angle)
        cs == cos(angle)
    IN  Point(F_sub(F_mul(self.x, cs), F_mul(self.y, sn)),
              F_add(F_mul(self.x, sn), F_mul(self.y, cs)))

\* Faulty variant: one coordinate within tolerance is enough.
Point_isclose_either(self, other) ==
    f64_isclose(self.x, other.x) \/ f64_isclose(self.y, other.y)

Point_isclose(self, other) ==
    f64_isclose(self.x, other.x) /\ f64_isclose(self.y, other.y)

\* Faulty variant: the correction is added to self.x.
Point_xintercept_plus(self, other) ==
    LET i == F_add(self.x,
                   F_div(F_mul(self.y, F_sub(other.x, self.x)),
                         F_sub(other.y, self.y)))
    IN  IF is_infinite(i) THEN INFINITY ELSE i

\* Faulty variant: the run is scaled by other.y.
Point_xintercept_other_y(self, other) ==
    LET i == F_sub(self.x,
                   F_div(F_mul(other.y, F_sub(other.x, self.x)),
                         F_sub(other.y, self.y)))
    IN  IF is_infinite(i) THEN INFINITY ELSE i

Point_xintercept(self, other) ==
    LET i == F_sub(self.x,
                   F_div(F_mul(self.y, F_sub(other.x, self.x)),
                         F_sub(other.y, self.y)))
    IN  IF is_infinite(i) THEN INFINITY ELSE i

Point_magnitude(self) == F_sqrt(F_add(F_powi2(self.x), F_powi2(self.y)))

\* Faulty variant: a zero magnitude is guarded.
Point_normalize_guarded(self) ==
    IF IsZero(Point_magnitude(self)) THEN self
    ELSE Point_div(self, Point_magnitude(self))

Point_normalize(self) == Point_div(self, Point_magnitude(self))

Point_dot_product(self, other) ==
    F_add(F_mul(self.x, other.x), F_mul(self.y, other.y))

Point_add(self, rhs) == Point(F_add(self.x, rhs.x), F_add(self.y, rhs.y))

Point_sub(self, rhs) == Point(F_sub(self.x, rhs.x), F_sub(self.y, rhs.y))

\* Faulty variant: each endpoint is compared with the other segment's opposite one.
LineSegment_isclose_crossed(self, other) ==
    Point_isclose(self.p1, other.p2) /\ Point_isclose(self.p2, other.p1)

LineSegment_isclose(self, other) ==
    Point_isclose(self.p1, other.p1) /\ Point_isclose(self.p2, other.p2)

(***************************************************************************)
(* The values a caller builds its operands from.                           *)
(***************************************************************************)
Coords ==
    {I(i) : i \in (-MaxCoord)..MaxCoord} \cup {NegZero, NaN, INFINITY, NEG_INFINITY}

GridPoints == {Point(x, y) : x, y \in Coords}

\* Points whose distance is of the order of the tolerance of isclose.
NearPoints ==
    {Point(I(199998), Zero), Point(I(200000), Zero), Point(I(200001), Zero)}

Points == GridPoints \cup NearPoints

Scalars ==
    {I(i) : i \in (-MaxScalar)..MaxScalar} \cup {NegZero, NaN, INFINITY, NEG_INFINITY}

Angles == {Zero, A345, F_neg(A345), A37, F_neg(A37), NaN, INFINITY}

SegPoints == {Point(Zero, Zero), Point(I(1), Zero), Point(NaN, Zero)} \cup NearPoints

Segments == {LineSegment(a, b) : a, b \in SegPoints}

Origin == Point(Zero, Zero)
NoSegment == LineSegment(Origin, Origin)
NoResult == [kind |-> "none"]

(***************************************************************************)
(* The state: the caller's operands (receiver p, Point argument q, f64     *)
(* argument k, segments s and t), the last operation and its result.       *)
(* Points and segments are built by direct field assignment, so the        *)
(* initial states are the operands a caller can build.                     *)
(***************************************************************************)
\* let p = Point { x, y }; let q = Point { x, y };
NewPoints == p \in Points /\ q \in Points /\ k = Zero /\ s = NoSegment /\ t = NoSegment

\* let p = Point { x, y }; with an f64 argument (a scalar or an angle)
NewPointScalar ==
    p \in Points /\ q = Origin /\ k \in Scalars \cup Angles /\ s = NoSegment /\ t = NoSegment

\* let s = LineSegment { p1, p2 }; let t = LineSegment { p1, p2 };
NewSegments == p = Origin /\ q = Origin /\ k = Zero /\ s \in Segments /\ t \in Segments

Init ==
    /\ NewPoints \/ NewPointScalar \/ NewSegments
    /\ op = "new"
    /\ res = NoResult

\* A call: the operands are borrowed or copied, the result is a new value.
Call(name, value) ==
    /\ op' = name
    /\ res' = value
    /\ UNCHANGED <<p, q, k, s, t>>

Angle == Call("angle", Point_angle(p))

\* Faulty variant: mul scales the receiver in place.
MulAssign ==
    /\ k \in Scalars
    /\ op' = "mul"
    /\ p' = Point_mul(p, k)
    /\ res' = p'
    /\ UNCHANGED <<q, k, s, t>>

Mul == k \in Scalars /\ Call("mul", Point_mul(p, k))

Div == k \in Scalars /\ Call("div", Point_div(p, k))

Rotate == p \in GridPoints /\ k \in Angles /\ Call("rotate", Point_rotate(p, k))

\* p.rotate(k).rotate(-k): rotate called on the result of the last rotate.
RotateBack == op = "rotate" /\ Call("rotate_back", Point_rotate(res, F_neg(k)))

IsClose == Call("isclose", Point_isclose(p, q))

XIntercept ==
    /\ p \in GridPoints
    /\ q \in GridPoints
    /\ Call("xintercept", Point_xintercept(p, q))

Magnitude ==
    /\ p \in GridPoints
    /\ HasExactSqrt(F_add(F_powi2(p.x), F_powi2(p.y)))
    /\ Call("magnitude", Point_magnitude(p))

Normalize ==
    /\ p \in GridPoints
    /\ HasExactSqrt(F_add(F_powi2(p.x), F_powi2(p.y)))
    /\ Call("normalize", Point_normalize(p))

DotProduct ==
    /\ p \in GridPoints
    /\ q \in GridPoints
    /\ Call("dot_product", Point_dot_product(p, q))

Add == Call("add", Point_add(p, q))

Sub == Call("sub", Point_sub(p, q))

SegIsClose == Call("segment_isclose", LineSegment_isclose(s, t))

Next ==
    \/ Angle
    \/ Mul
    \/ Div
    \/ Rotate
    \/ RotateBack
    \/ IsClose
    \/ XIntercept
    \/ Magnitude
    \/ Normalize
    \/ DotProduct
    \/ Add
    \/ Sub
    \/ SegIsClose

Spec == Init /\ [][Next]_vars

(***************************************************************************)
(* Properties.                                                             *)
(***************************************************************************)
FinitePoint(a) == is_finite(a.x) /\ is_finite(a.y)

\* The signed numerator of a finite value.
SNum(a) == a.sgn * a.num

Abs(i) == IF i < 0 THEN -i ELSE i

\* |a - b| <= 1e-8 + 1e-5 * |b| over the extended reals, spelled out on the
\* numerators and denominators: for finite a = na/da and b = nb/db it is
\* 10^8 * |na*db - nb*da| <= da*db + 1000 * |nb| * da.
WithinTol(a, b) ==
    IF is_nan(a) \/ is_nan(b) THEN FALSE
    ELSE IF is_infinite(b) THEN ~(is_infinite(a) /\ a.sgn = b.sgn)
    ELSE IF is_infinite(a) THEN FALSE
    ELSE Abs(SNum(a) * b.den - SNum(b) * a.den)
            <= (a.den * b.den + 1000 * b.num * a.den) \div 100000000

\* C1: for every pair of points with the same y-coordinate (here: two finite
\* points with different x, a horizontal line), self.xintercept(&other)
\* returns +Infinity.
C1_HorizontalReturnsInfinity ==
    (op = "xintercept" /\ FinitePoint(p) /\ FinitePoint(q)
        /\ F_eq(p.y, q.y) /\ ~F_eq(p.x, q.x))
        => res = INFINITY

Swapped(a) == LineSegment(a.p2, a.p1)

\* C2 as claimed: for every segment s and the segment t with s's endpoints
\* swapped, s.isclose(&t) is false.
C2_SwappedNeverClose ==
    (op = "segment_isclose" /\ t = Swapped(s)) => res = FALSE

\* C2 as amended: endpoints are compared positionally, so for the segment t
\* with s's endpoints swapped s.isclose(&t) is true exactly when each coordinate
\* of s.p1 is within tolerance of s.p2's and each of s.p2 within tolerance of
\* s.p1's; it is false whenever the endpoints are not mutually close.
C2_SwappedCloseIffEndpointsClose ==
    (op = "segment_isclose" /\ t = Swapped(s))
        => (res <=> /\ WithinTol(s.p1.x, s.p2.x) /\ WithinTol(s.p1.y, s.p2.y)
                    /\ WithinTol(s.p2.x, s.p1.x) /\ WithinTol(s.p2.y, s.p1.y))

C2_Witness ==
    /\ op = "segment_isclose"
    /\ t = Swapped(s)
    /\ FinitePoint(s.p1) /\ FinitePoint(s.p2)
    /\ s.p1 # s.p2
    /\ res = FALSE

\* C3: Point::isclose is not commutative: some pair of finite points a, b has
\* a.isclose(b) # b.isclose(a); and whenever a.isclose(b) holds while b.isclose(a)
\* does not, some coordinate of the argument b is larger in magnitude than the
\* receiver's (the relative tolerance scales with the argument).
C3_IscloseNotCommutative ==
    /\ \E a, b \in NearPoints :
          FinitePoint(a) /\ FinitePoint(b) /\ Point_isclose(a, b) # Point_isclose(b, a)
    /\ (op = "isclose" /\ FinitePoint(p) /\ FinitePoint(q)
            /\ res = TRUE /\ ~Point_isclose(q, p))
        => (Cmp(F_abs(q.x), F_abs(p.x)) > 0 \/ Cmp(F_abs(q.y), F_abs(p.y)) > 0)

C3_Witness ==
    /\ op = "isclose"
    /\ FinitePoint(p) /\ FinitePoint(q)
    /\ res = TRUE
    /\ ~Point_isclose(q, p)

\* C4: for the point (1.0, 1.0), angle() returns exactly PI.
C4_AngleOfOneOneIsPi ==
    (op = "angle" /\ p = Point(I(1), I(1))) => res = PI

\* (r, 0) lies on the line through the finite points a and b.
OnLineAtAxis(r, a, b) ==
    (SNum(r) * a.x.den * b.x.den * a.y.den * b.y.den
        - SNum(a.x) * r.den * b.x.den * a.y.den * b.y.den)
      * (SNum(b.y) * a.y.den - SNum(a.y) * b.y.den)
    = (- SNum(a.y) * b.y.den * r.den)
      * (SNum(b.x) * a.x.den - SNum(a.x) * b.x.den) * a.y.den * b.y.den

\* C5: for every pair of finite points with different y-coordinates,
\* self.xintercept(&other) is the x at which the line through them crosses
\* the x-axis; for a vertical line it is exactly the common x.
C5_XInterceptOnLine ==
    (op = "xintercept" /\ FinitePoint(p) /\ FinitePoint(q) /\ ~F_eq(p.y, q.y))
        => /\ is_finite(res)
           /\ OnLineAtAxis(res, p, q)
           /\ F_eq(p.x, q.x) => F_eq(res, p.x)

C5_Witness ==
    /\ op = "xintercept"
    /\ FinitePoint(p) /\ FinitePoint(q)
    /\ ~F_eq(p.y, q.y)
    /\ ~F_eq(p.x, q.x)
    /\ is_finite(res) /\ res.den > 1

\* sin and cos of the angle lie on the unit circle: c*c + s*s = 1.
OnUnitCircle(a) == F_eq(F_add(F_powi2(cos(a)), F_powi2(sin(a))), I(1))

C7_NormalizeZeroIsNaN ==
    (op = "normalize" /\ IsZero(p.x) /\ IsZero(p.y))
        => (is_nan(res.x) /\ is_nan(res.y))

C7_Witness ==
    /\ op = "normalize"
    /\ p = Origin
    /\ is_nan(res.x) /\ is_nan(res.y)

PointOps == {"mul", "div", "rotate", "rotate_back", "normalize", "add", "sub"}

\* C8: no call changes its receiver or its arguments, and a call that
\* returns a Point leaves it in a value of its own.
C8_NoMutation ==
    [][/\ p' = p /\ q' = q /\ k' = k /\ s' = s /\ t' = t
       /\ op' \in PointOps => DOMAIN res' = {"x", "y"}]_vars

C8_Witness ==
    /\ op = "mul"
    /\ FinitePoint(p) /\ is_finite(k)
    /\ ~F_eq(res.x, p.x)

\* C9: a.isclose(b) is true iff |a.x - b.x| <= ATOL + RTOL*|b.x| and
\* |a.y - b.y| <= ATOL + RTOL*|b.y|.
C9_IscloseIffBothWithinTol ==
    op = "isclose" => (res <=> (WithinTol(p.x, q.x) /\ WithinTol(p.y, q.y)))

C9_Witness ==
    /\ op = "isclose"
    /\ FinitePoint(p) /\ FinitePoint(q)
    /\ WithinTol(p.x, q.x)
    /\ ~WithinTol(p.y, q.y)
    /\ res = FALSE

\* C10: for every pair of finite points p and q with different
\* y-coordinates, p.xintercept(&q) equals q.xintercept(&p).
C10_XInterceptSymmetric ==
    (op = "xintercept" /\ FinitePoint(p) /\ FinitePoint(q) /\ ~F_eq(p.y, q.y))
        => F_eq(res, Point_xintercept(q, p))

C10_Witness ==
    /\ op = "xintercept"
    /\ FinitePoint(p) /\ FinitePoint(q)
    /\ ~F_eq(p.y, q.y)
    /\ ~F_eq(p.x, q.x)
    /\ ~IsZero(p.y) /\ ~IsZero(q.y)
    /\ F_eq(res, Point_xintercept(q, p))

=============================================================================
